---- MODULE Spec2Model ----
(***************************************************************************)
(* Model of the invoice analytics dashboard script (src/app.py).           *)
(*                                                                         *)
(* The script is re-executed from top to bottom on every user interaction  *)
(* (country selector, date-range picker, customer selector, buttons).  One *)
(* execution is modelled by Script, which returns the set of outcomes the  *)
(* run can have; every interaction is one action that performs a full run. *)
(*                                                                         *)
(* Tables are sets of row records; the field idx is the row label (the     *)
(* DataFrame index), so equal-looking rows stay distinct.  Timestamps are  *)
(* integers: day * TicksPerDay + time-of-day, a calendar date is a day     *)
(* number, and a month is DaysPerMonth consecutive days.  Money is integer *)
(* valued; the percentile threshold is kept in hundredths.                 *)
(***************************************************************************)
EXTENDS Integers, Sequences, FiniteSets, TLC

\* ------------------------------------------------------------------ bounds
MaxRows == 2
MaxDay == 2
TicksPerDay == 2
DaysPerMonth == 2
MaxTopCust == 11
MaxTopProd == 11

\* ------------------------------------------------------- program constants
TopN == 10
QuantilePct == 99
DaysPerWeek == 7
NaN == -1

BaseColumns == {"InvoiceNo", "InvoiceDate", "CustomerID", "Country", "InvoiceTotal"}

\* ------------------------------------------------------------ small helpers
Min2(a, b) == IF a <= b THEN a ELSE b

SetMin(S) == CHOOSE x \in S : \A y \in S : x <= y

SetMax(S) == CHOOSE x \in S : \A y \in S : y <= x

\* faulty variant: the list is cut one entry short
HeadOffByOne(s) == SubSeq(s, 1, Min2(TopN - 1, Len(s)))

Head10(s) == SubSeq(s, 1, Min2(TopN, Len(s)))

SeqRange(s) == {s[i] : i \in 1..Len(s)}

\* -------------------------------------------------------------- calendar
\* date -> midnight timestamp (pd.to_datetime on a datetime.date)
ToDatetime(d) == d * TicksPerDay

\* timestamp -> calendar date (what the date picker keeps of a Timestamp)
DateOf(ts) == ts \div TicksPerDay

\* .dt.to_period("M").dt.to_timestamp(): truncate to the first of the month
ToMonth(ts) == ((DateOf(ts) \div DaysPerMonth) * DaysPerMonth) * TicksPerDay

WeekdayNames == <<"Monday", "Tuesday", "Wednesday", "Thursday", "Friday",
                  "Saturday", "Sunday">>

\* .dt.day_name()
DayName(ts) == WeekdayNames[(DateOf(ts) % DaysPerWeek) + 1]

\* ---------------------------------------------------------------- inputs
\* the timestamp used for invoices of day d: midnight on even days, later in
\* the day on odd days
Stamp(d) == d * TicksPerDay + (d % TicksPerDay)

Stamps == {Stamp(d) : d \in 0..MaxDay}

Countries == {"UK", "FR"}

Row(i, no, ts, cust, country, total) ==
    [idx |-> i, InvoiceNo |-> no, InvoiceDate |-> ts, CustomerID |-> cust,
     Country |-> country, InvoiceTotal |-> total]

\* rows of one invoice share the timestamp
KindRow(i, k) == Row(i, 536365 + DateOf(k.ts), k.ts, k.cust, k.country, k.total)

Kind(ts, cust, country, total) ==
    [ts |-> ts, cust |-> cust, country |-> country, total |-> total]

\* rows that differ in country and date (customer and total fixed)
FilterKinds == {Kind(ts, 1, c, 10) : ts \in Stamps, c \in Countries}

\* rows that differ in customer and month (country and total fixed)
ViewKinds == {Kind(ts, cu, "UK", 10) : ts \in {Stamp(0), Stamp(MaxDay)}, cu \in {NaN, 1, 2}}

\* rows that differ in total, with or without customer (country and date fixed)
AmountKinds == {Kind(Stamp(0), cu, "UK", t) : cu \in {NaN, 1}, t \in {10, 20}}

KindRank(k) ==
    (((IF k.country = "UK" THEN 0 ELSE 1) * 4 + (k.cust + 1)) * 1000 + k.ts) * 100
    + k.total

\* tables of 1..MaxRows rows over a set of kinds, one per multiset of kinds
TablesOver(Kinds) ==
    UNION {{{KindRow(i, f[i]) : i \in 1..n} :
              f \in {g \in [1..n -> Kinds] :
                       \A i \in 1..(n - 1) : KindRank(g[i]) <= KindRank(g[i + 1])}} :
           n \in 1..MaxRows}

\* the three-invoice example: UK/cust 1 in two months, FR/cust 2
ExampleTable ==
    {Row(1, 536365, Stamp(0), 1, "UK", 10),
     Row(2, 536366, Stamp(MaxDay), 1, "UK", 20),
     Row(3, 536367, Stamp(0), 2, "FR", 5)}

\* totals of the k groups of a large table: ascending in the key, or descending
\* with the two smallest equal
TopPattern(p, c, k) ==
    IF p = 1 THEN 10 * c
    ELSE IF k + 1 - c <= 2 THEN 20 ELSE 10 * (k + 1 - c)

\* k customers with one invoice each, a second invoice for customer 1 and an
\* invoice without customer
LargeTable(k, p) ==
    {Row(c, 536365 + c, Stamp(0), c, "UK", TopPattern(p, c, k)) : c \in 1..k}
    \cup {Row(k + 1, 536365, Stamp(0), 1, "UK", 5),
          Row(k + 2, 536364, Stamp(0), NaN, "UK", 10)}

LargeTables == {LargeTable(k, p) : k \in (MaxTopCust - 1)..MaxTopCust, p \in 1..2}

SmallTables == TablesOver(FilterKinds) \cup TablesOver(ViewKinds)
               \cup TablesOver(AmountKinds) \cup {ExampleTable}

Line(i, desc, qty, price, country) ==
    [idx |-> i, Description |-> desc, Quantity |-> qty, UnitPrice |-> price,
     Country |-> country]

LineKinds == {[desc |-> d, qty |-> q, country |-> c] :
                d \in {1, 2}, q \in {1, 2}, c \in Countries}

LineRank(k) == ((IF k.country = "UK" THEN 0 ELSE 1) * 10 + k.desc) * 10 + k.qty

SmallLineTables ==
    UNION {{{Line(i, f[i].desc, f[i].qty, 5, f[i].country) : i \in 1..n} :
              f \in {g \in [1..n -> LineKinds] :
                       \A i \in 1..(n - 1) : LineRank(g[i]) <= LineRank(g[i + 1])}} :
           n \in 0..MaxRows}

LargeLineTable(k, p) ==
    {Line(d, d, 1, TopPattern(p, d, k), "UK") : d \in 1..k}
    \cup {Line(k + 1, 1, 1, 5, "UK"), Line(k + 2, 2, 1, 5, "FR")}

LargeLineTables == {LargeLineTable(k, p) : k \in (MaxTopProd - 1)..MaxTopProd, p \in 1..2}

ExampleLines == {Line(1, 1, 2, 5, "UK"), Line(2, 2, 1, 5, "FR")}

\* --------------------------------------------------------------- loaders
\* load_raw: LineTotal = Quantity * UnitPrice on every row
LoadRaw(lines) ==
    {[idx |-> l.idx, Description |-> l.Description, Quantity |-> l.Quantity,
      UnitPrice |-> l.UnitPrice, Country |-> l.Country,
      LineTotal |-> l.Quantity * l.UnitPrice] : l \in lines}

\* ---------------------------------------------------------- filter stage
\* line 25: df = df_full.copy()
CopyOf(T) == T

\* lines 31-32: the options of the country selector
CountryOptions(T) == {"All"} \cup {r.Country : r \in T}

\* faulty variant: the selection is computed but the table is not replaced by it
CountryFilterDropped(T, c) == T

\* lines 33-34
CountryFilter(T, c) == IF c # "All" THEN {r \in T : r.Country = c} ELSE T

\* lines 36-37: the default value of the date picker
DefaultRange(T) ==
    <<DateOf(SetMin({r.InvoiceDate : r \in T})), DateOf(SetMax({r.InvoiceDate : r \in T}))>>

\* faulty variant: a single endpoint already filters from the start date
DateFilterFromStart(T, dr) ==
    IF Len(dr) = 2
    THEN {r \in T : r.InvoiceDate >= ToDatetime(dr[1])
                    /\ r.InvoiceDate <= ToDatetime(dr[2])}
    ELSE IF Len(dr) = 1 THEN {r \in T : r.InvoiceDate >= ToDatetime(dr[1])}
    ELSE T

\* lines 38-40
DateFilter(T, dr) ==
    IF Len(dr) = 2
    THEN {r \in T : r.InvoiceDate >= ToDatetime(dr[1])
                    /\ r.InvoiceDate <= ToDatetime(dr[2])}
    ELSE T

\* what the date picker can return: zero, one or two dates, in order
DateRanges ==
    {<<>>} \cup {<<d>> : d \in 0..MaxDay}
    \cup {p \in (0..MaxDay) \X (0..MaxDay) : p[1] <= p[2]}

\* ----------------------------------------------------------- aggregation
RECURSIVE SumCol(_, _)
\* Series.sum(): 0 on an empty table
SumCol(T, col) ==
    IF T = {} THEN 0
    ELSE LET r == CHOOSE x \in T : TRUE IN r[col] + SumCol(T \ {r}, col)

\* nunique(): distinct non-null values of a column
NUnique(T, col) == Cardinality({r[col] : r \in T} \ {NaN})

RECURSIVE SortValues(_, _)
\* sort_values(col, ascending=False): every order the sort may give to ties
SortValues(S, col) ==
    IF S = {} THEN {<<>>}
    ELSE LET top == {r \in S : \A q \in S : q[col] <= r[col]}
         IN UNION {{<<r>> \o rest : rest \in SortValues(S \ {r}, col)} : r \in top}

\* lines 49-50: group by (Country, Month), distinct InvoiceNo
CountryMonthly(T) ==
    {[Country |-> g[1], Month |-> g[2],
      InvoiceNo |-> NUnique({r \in T : r.Country = g[1] /\ ToMonth(r.InvoiceDate) = g[2]},
                            "InvoiceNo")] :
        g \in {<<r.Country, ToMonth(r.InvoiceDate)>> : r \in T}}

\* lines 52-55
TrendData(monthly, c) ==
    IF c # "All" THEN {g \in monthly : g.Country = c} ELSE monthly

\* faulty variant: the null key forms a group of its own
CustomerSumsKeepNull(T) ==
    {[CustomerID |-> c,
      InvoiceTotal |-> SumCol({r \in T : r.CustomerID = c}, "InvoiceTotal")] :
        c \in {r.CustomerID : r \in T}}

\* line 64: groupby("CustomerID") drops null keys
CustomerSums(T) ==
    {[CustomerID |-> c,
      InvoiceTotal |-> SumCol({r \in T : r.CustomerID = c}, "InvoiceTotal")] :
        c \in {r.CustomerID : r \in T} \ {NaN}}

\* line 65
TopCustomers(T) == {Head10(s) : s \in SortValues(CustomerSums(T), "InvoiceTotal")}

RECURSIVE IntToStr(_)
\* str(int(cid)): the decimal digits
IntToStr(n) == IF n < 10 THEN <<n>> ELSE IntToStr(n \div 10) \o <<n % 10>>

RECURSIVE StrToNum(_)
\* float(s)
StrToNum(s) ==
    IF Len(s) = 1 THEN s[1] ELSE 10 * StrToNum(SubSeq(s, 1, Len(s) - 1)) + s[Len(s)]

\* string comparison
StrLess(a, b) ==
    \/ \E i \in 1..Min2(Len(a), Len(b)) :
          a[i] < b[i] /\ \A j \in 1..(i - 1) : a[j] = b[j]
    \/ Len(a) < Len(b) /\ \A j \in 1..Len(a) : a[j] = b[j]

RECURSIVE Sorted(_)
\* sorted(list of distinct strings)
Sorted(S) ==
    IF S = {} THEN <<>>
    ELSE LET m == CHOOSE x \in S : \A y \in S \ {x} : StrLess(x, y)
         IN <<m>> \o Sorted(S \ {m})

\* lines 66-67
CustomerIds(T) == Sorted({IntToStr(c) : c \in {r.CustomerID : r \in T} \ {NaN}})

\* the selectbox returns None (the empty sequence here) without options, keeps
\* its value while its options are unchanged and else falls back to the first
NoneStr == <<>>

Selectbox(options, prevValue, prevOptions) ==
    IF options = <<>> THEN NoneStr
    ELSE IF options = prevOptions /\ prevValue \in SeqRange(options) THEN prevValue
    ELSE options[1]

\* lines 70-72
CustomerTrend(T, selected) ==
    LET customer_df == {r \in T : r.CustomerID = StrToNum(selected)}
    IN {[Month |-> m,
         InvoiceTotal |-> SumCol({r \in customer_df : ToMonth(r.InvoiceDate) = m},
                                 "InvoiceTotal")] :
          m \in {ToMonth(r.InvoiceDate) : r \in customer_df}}

\* lines 81-82
WeekdayGroups(T) ==
    {[Weekday |-> w,
      InvoiceTotal |-> SumCol({r \in T : DayName(r.InvoiceDate) = w}, "InvoiceTotal"),
      InvoiceNo |-> NUnique({r \in T : DayName(r.InvoiceDate) = w}, "InvoiceNo")] :
        w \in {DayName(r.InvoiceDate) : r \in T}}

\* line 83
WeekdayStats(T) == SortValues(WeekdayGroups(T), "InvoiceTotal")

\* faulty variant: df is the loaded table itself, so the column lands on it
AddWeekdayAliased(fullCols, dfCols) ==
    [full |-> fullCols \cup {"Weekday"}, df |-> dfCols \cup {"Weekday"}]

\* line 81 assigns the column on df, the copy; df_full keeps its columns
AddWeekday(fullCols, dfCols) == [full |-> fullCols, df |-> dfCols \cup {"Weekday"}]

\* faulty variant: the cells count distinct invoice numbers instead of rows
CrosstabDistinctInvoices(T) ==
    LET d == {r \in T : r.CustomerID # NaN}
    IN [k \in {r.CustomerID : r \in d} \X {ToMonth(r.InvoiceDate) : r \in d} |->
          Cardinality({r.InvoiceNo : r \in {x \in d : x.CustomerID = k[1]
                                                      /\ ToMonth(x.InvoiceDate) = k[2]}})]

\* lines 91-93: pd.crosstab drops the rows whose CustomerID is null
Crosstab(T) ==
    LET d == {r \in T : r.CustomerID # NaN}
    IN [k \in {r.CustomerID : r \in d} \X {ToMonth(r.InvoiceDate) : r \in d} |->
          Cardinality({r \in d : r.CustomerID = k[1] /\ ToMonth(r.InvoiceDate) = k[2]})]

\* np.log1p in thousandths, rounded down
Log1pTable == <<0, 693, 1098, 1386, 1609, 1791, 1945, 2079, 2197, 2302, 2397,
                2484, 2564, 2639, 2708, 2772>>

Log1p(x) == Log1pTable[x + 1]

\* line 94
Heatmap(ct) == [k \in DOMAIN ct |-> Log1p(ct[k])]

\* faulty variant: the invoice count is the number of distinct invoice numbers
KpiDistinctInvoices(T) ==
    [total_revenue |-> SumCol(T, "InvoiceTotal"),
     invoice_count |-> NUnique(T, "InvoiceNo"),
     unique_customers |-> NUnique(T, "CustomerID")]

\* lines 102-104 and 140-142
Kpi(T) ==
    [total_revenue |-> SumCol(T, "InvoiceTotal"),
     invoice_count |-> Cardinality(T),
     unique_customers |-> NUnique(T, "CustomerID")]

\* lines 116-117
RawCountryFilter(raw, c) == IF c # "All" THEN {l \in raw : l.Country = c} ELSE raw

\* line 119
ProductSums(raw) ==
    {[Description |-> d,
      LineTotal |-> SumCol({l \in raw : l.Description = d}, "LineTotal")] :
        d \in {l.Description : l \in raw}}

\* line 120
TopProducts(raw) == {Head10(s) : s \in SortValues(ProductSums(raw), "LineTotal")}

RECURSIVE SortedTotals(_)
\* the InvoiceTotal column in ascending order, with repetitions
SortedTotals(T) ==
    IF T = {} THEN <<>>
    ELSE LET r == CHOOSE x \in T : \A y \in T : x.InvoiceTotal <= y.InvoiceTotal
         IN <<r.InvoiceTotal>> \o SortedTotals(T \ {r})

\* line 128: Series.quantile(0.99), linear interpolation between the two
\* nearest ranks; the value is in hundredths, NaN on an empty column
Quantile(T, pct) ==
    LET v == SortedTotals(T)
        n == Len(v)
        pos == pct * (n - 1)
        lo == pos \div 100
        fr == pos % 100
        hi == IF fr = 0 THEN lo ELSE lo + 1
    IN IF n = 0 THEN [nan |-> TRUE, x100 |-> 0]
       ELSE [nan |-> FALSE, x100 |-> 100 * v[lo + 1] + fr * (v[hi + 1] - v[lo + 1])]

\* a comparison with NaN is false
GreaterThan(total, q) == ~q.nan /\ 100 * total > q.x100

\* line 129
Anomalies(T, q) == {r \in T : GreaterThan(r.InvoiceTotal, q)}

\* ------------------------------------------------------------ one script run
VARIABLES
    df_full,            \* load_data(): the loaded invoice table
    df_full_columns,    \* its columns
    raw_full,           \* load_raw(): the line items, with LineTotal
    selected_country,   \* country selector
    date_range,         \* date picker: a sequence of 0, 1 or 2 dates
    selected_customer,  \* customer selector: a digit string, or NoneStr
    pdf_button,         \* whether this run was started by the PDF button
    df,                 \* the filtered table
    df_columns,         \* its columns
    status,             \* "ok", or "error" when the run raised
    rendered,           \* the sections this run got to
    data,               \* tab 1: monthly invoice counts by country
    top_customers,      \* tab 2: top customers
    customer_ids,       \* tab 2: options of the customer selector
    customer_trend,     \* tab 2: monthly spend of the selected customer
    weekday_stats,      \* tab 3
    retention,          \* tab 4: customer x month counts
    heatmap,            \* tab 4: log1p of the counts
    kpi,                \* the three metrics: revenue, invoices, customers
    top_products,       \* top products
    thresh,             \* the percentile threshold
    anomalies,          \* rows above the threshold
    csv,                \* the CSV export
    pdf_report,         \* the report offered for download by this run
    first_df            \* the filtered table of the first run

vars == <<df_full, df_full_columns, raw_full, selected_country, date_range,
          selected_customer, pdf_button, df, df_columns, status, rendered, data,
          top_customers, customer_ids, customer_trend, weekday_stats, retention,
          heatmap, kpi, top_products, thresh, anomalies, csv, pdf_report, first_df>>

AllSections == {"trend", "top_customers", "customer_trend", "weekday", "retention",
                "kpi", "top_products", "anomalies", "pdf_button", "csv"}

KpiTriple(T) == <<Kpi(T).total_revenue, Kpi(T).invoice_count, Kpi(T).unique_customers>>

\* lines 134-144: the report holds the three figures of the filtered table
GeneratePdf(T) == KpiTriple(T)

\* The outcomes of one run of the script (lines 24-155) for the widget values
\* c (country) and dr (date range); prevCust and prevOpts are the customer
\* selector's value and options of the previous run, btn tells whether the PDF
\* button was pressed.  The report file is written and read back in the same
\* run (lines 147-149), so only that run's report is kept.
Script(full, fullCols, raw, c, dr, prevCust, prevOpts, btn) ==
    LET t0 == CopyOf(full)
        t1 == CountryFilter(t0, c)
        t2 == DateFilter(t1, dr)
        ids == CustomerIds(t2)
        sel == Selectbox(ids, prevCust, prevOpts)
        cols == AddWeekday(fullCols, BaseColumns)
        ct == Crosstab(t2)
        q == Quantile(t2, QuantilePct)
        common == [df_full_columns |-> fullCols, selected_country |-> c,
                   date_range |-> dr, selected_customer |-> sel, pdf_button |-> btn,
                   df |-> t2, data |-> TrendData(CountryMonthly(t2), c),
                   customer_ids |-> ids]
    IN IF sel = NoneStr
       THEN \* line 70: float(None) raises; the run stops there
            {common @@
             [df_columns |-> BaseColumns, status |-> "error",
              rendered |-> {"trend", "top_customers"}, top_customers |-> tc,
              customer_trend |-> {}, weekday_stats |-> <<>>, retention |-> <<>>,
              heatmap |-> <<>>, kpi |-> <<>>, top_products |-> <<>>,
              thresh |-> [nan |-> TRUE, x100 |-> 0], anomalies |-> {},
              csv |-> [rows |-> {}, columns |-> {}], pdf_report |-> <<>>] :
                tc \in TopCustomers(t2)}
       ELSE {[df_full_columns |-> cols.full, selected_country |-> c,
              date_range |-> dr, selected_customer |-> sel, pdf_button |-> btn,
              df |-> t2, data |-> TrendData(CountryMonthly(t2), c),
              customer_ids |-> ids,
              df_columns |-> cols.df, status |-> "ok", rendered |-> AllSections,
              top_customers |-> tc, customer_trend |-> CustomerTrend(t2, sel),
              weekday_stats |-> wk, retention |-> ct, heatmap |-> Heatmap(ct),
              kpi |-> KpiTriple(t2), top_products |-> tp, thresh |-> q,
              anomalies |-> Anomalies(t2, q),
              csv |-> [rows |-> t2, columns |-> cols.df],
              pdf_report |-> IF btn THEN GeneratePdf(t2) ELSE <<>>] :
                tc \in TopCustomers(t2), wk \in WeekdayStats(t2),
                tp \in TopProducts(RawCountryFilter(raw, c))}

\* the state after a run with outcome o (unprimed, for Init)
Shows(o) ==
    /\ df_full_columns = o.df_full_columns
    /\ selected_country = o.selected_country
    /\ date_range = o.date_range
    /\ selected_customer = o.selected_customer
    /\ pdf_button = o.pdf_button
    /\ df = o.df
    /\ df_columns = o.df_columns
    /\ status = o.status
    /\ rendered = o.rendered
    /\ data = o.data
    /\ top_customers = o.top_customers
    /\ customer_ids = o.customer_ids
    /\ customer_trend = o.customer_trend
    /\ weekday_stats = o.weekday_stats
    /\ retention = o.retention
    /\ heatmap = o.heatmap
    /\ kpi = o.kpi
    /\ top_products = o.top_products
    /\ thresh = o.thresh
    /\ anomalies = o.anomalies
    /\ csv = o.csv
    /\ pdf_report = o.pdf_report

\* a rerun of the script: the loaded tables are cached, everything else is new
Rerun(c, dr, cust, btn) ==
    \E o \in Script(df_full, df_full_columns, raw_full, c, dr, cust, customer_ids,
                    btn) :
        /\ df_full_columns' = o.df_full_columns
        /\ selected_country' = o.selected_country
        /\ date_range' = o.date_range
        /\ selected_customer' = o.selected_customer
        /\ pdf_button' = o.pdf_button
        /\ df' = o.df
        /\ df_columns' = o.df_columns
        /\ status' = o.status
        /\ rendered' = o.rendered
        /\ data' = o.data
        /\ top_customers' = o.top_customers
        /\ customer_ids' = o.customer_ids
        /\ customer_trend' = o.customer_trend
        /\ weekday_stats' = o.weekday_stats
        /\ retention' = o.retention
        /\ heatmap' = o.heatmap
        /\ kpi' = o.kpi
        /\ top_products' = o.top_products
        /\ thresh' = o.thresh
        /\ anomalies' = o.anomalies
        /\ csv' = o.csv
        /\ pdf_report' = o.pdf_report
        /\ UNCHANGED <<df_full, raw_full, first_df>>

\* the first run: country "All", the default date range
Init ==
    /\ \/ df_full \in SmallTables /\ raw_full = LoadRaw(ExampleLines)
       \/ df_full \in LargeTables /\ raw_full = LoadRaw(LargeLineTable(MaxTopProd, 1))
       \/ /\ df_full = ExampleTable
          /\ raw_full \in {LoadRaw(t) : t \in SmallLineTables \cup LargeLineTables}
    /\ \E o \in Script(df_full, BaseColumns, raw_full, "All",
                       DefaultRange(CountryFilter(df_full, "All")), NoneStr, <<>>,
                       FALSE) : Shows(o)
    /\ first_df = df

\* the date picker keeps its value while its default is unchanged
DateWidget(c) ==
    LET old == DefaultRange(CountryFilter(df_full, selected_country))
        new == DefaultRange(CountryFilter(df_full, c))
    IN IF new = old THEN date_range ELSE new

SelectCountry(c) ==
    /\ c # selected_country
    /\ Rerun(c, DateWidget(c), selected_customer, FALSE)

PickDateRange(dr) ==
    /\ dr # date_range
    /\ Rerun(selected_country, dr, selected_customer, FALSE)

SelectCustomer(cust) ==
    /\ cust # selected_customer
    /\ Rerun(selected_country, date_range, cust, FALSE)

\* line 146
PressPdfButton ==
    /\ "pdf_button" \in rendered
    /\ Rerun(selected_country, date_range, selected_customer, TRUE)

\* lines 152-155: a download click starts a plain rerun
DownloadCsv ==
    /\ "csv" \in rendered
    /\ Rerun(selected_country, date_range, selected_customer, FALSE)

Next ==
    \/ \E c \in CountryOptions(df_full) : SelectCountry(c)
    \/ \E dr \in DateRanges : PickDateRange(dr)
    \/ \E cust \in SeqRange(customer_ids) : SelectCustomer(cust)
    \/ PressPdfButton
    \/ DownloadCsv

Spec == Init /\ [][Next]_vars

\* ======================================================================
\* Properties
\* ======================================================================

\* the country predicate the selection asks for
CountryOK(r) == selected_country = "All" \/ r.Country = selected_country

\* the rows a customer-keyed output may use
WithCustomer(T) == {r \in T : r.CustomerID # NaN}

\* ts lies in the calendar month that starts at timestamp m
InMonth(ts, m) == m <= ts /\ ts < m + DaysPerMonth * TicksPerDay

\* the run reached the end of the script
Completed == status = "ok" /\ rendered = AllSections

\* C1: when the filters leave zero rows the run completes without raising and
\* every downstream view is produced, empty (the KPI triple being 0, 0, 0).
C1_EmptyFilterDegrades ==
    df = {} =>
        /\ Completed
        /\ data = {} /\ top_customers = <<>> /\ customer_trend = {}
        /\ weekday_stats = <<>> /\ DOMAIN retention = {} /\ anomalies = {}
        /\ kpi = <<0, 0, 0>>

\* the same failure, seen from the customer selector: a filtered table without
\* any customer id makes the run stop in the customer drilldown
C1_RunStopsWithoutCustomers ==
    (WithCustomer(df) = {}) <=> (status = "error")

\* the 99th percentile in hundredths, from the ranks: with n values in
\* ascending order v[0..n-1], the value at the fractional rank 0.99 * (n - 1)
P99x100(T) ==
    LET v == SortedTotals(T)
        n == Len(v)
        below == (99 * (n - 1)) \div 100
        part == (99 * (n - 1)) % 100
    IN IF part = 0 THEN 100 * v[below + 1]
       ELSE (100 - part) * v[below + 1] + part * v[below + 2]

\* C2: for every filtered table the anomaly set is exactly the rows strictly
\* above the 99th percentile of that table; a table of 0 or 1 rows gives an
\* empty anomaly set and no error.
C2_AnomalySet ==
    /\ Completed
    /\ anomalies = IF df = {} THEN {}
                   ELSE {r \in df : 100 * r.InvoiceTotal > P99x100(df)}
    /\ Cardinality(df) <= 1 => anomalies = {}

\* what the anomaly step does whenever the run reaches it
C2_AnomalyStepWhenReached ==
    "anomalies" \in rendered =>
        /\ df # {}
        /\ anomalies = {r \in df : 100 * r.InvoiceTotal > P99x100(df)}
        /\ \A r \in df : 100 * r.InvoiceTotal = P99x100(df) => r \notin anomalies
        /\ Cardinality(df) <= 1 => anomalies = {}

\* C3: with two endpoints picked, exactly the rows of the country-filtered
\* table dated from the start day to the end day, both days included, are kept.
C3_DateRangeInclusive ==
    Len(date_range) = 2 =>
        df = {r \in df_full : /\ CountryOK(r)
                              /\ date_range[1] <= DateOf(r.InvoiceDate)
                              /\ DateOf(r.InvoiceDate) <= date_range[2]}

\* what the date predicate keeps: the rows from midnight of the start day up
\* to midnight of the end day
C3_KeptUpToMidnightOfEndDay ==
    Len(date_range) = 2 =>
        df = {r \in df_full : /\ CountryOK(r)
                              /\ date_range[1] * TicksPerDay <= r.InvoiceDate
                              /\ r.InvoiceDate <= date_range[2] * TicksPerDay}

\* C4: the filtered rows are rows of the loaded table, unaltered; with "All"
\* no country predicate applies, otherwise exactly the rows of the selected
\* country are candidates (what else decides is the row's date alone).
C4_FilterIsSubset ==
    /\ df \subseteq df_full
    /\ \A r \in df : CountryOK(r)
    /\ \A r \in df_full : \A q \in df_full :
          (CountryOK(r) /\ CountryOK(q) /\ r.InvoiceDate = q.InvoiceDate)
              => (r \in df <=> q \in df)
    /\ Len(date_range) # 2 => \A r \in df_full : CountryOK(r) => r \in df

C4_Witness ==
    /\ selected_country = "UK"
    /\ \E r \in df_full : r.Country = "FR"
    /\ df # {} /\ df # {r \in df_full : r.Country = "UK"}

\* C5: with zero or one endpoint picked the date predicate is skipped: the
\* filtered table is the country-filtered table, and the run gets past the
\* filter stage.
C5_IncompleteRangeSkipped ==
    Len(date_range) # 2 =>
        /\ df = {r \in df_full : CountryOK(r)}
        /\ "trend" \in rendered

C5_Witness ==
    /\ Len(date_range) = 1
    /\ Completed
    /\ \E r \in df : DateOf(r.InvoiceDate) # date_range[1]
    /\ df # df_full

\* a top list: as long as min(10, number of groups), each entry the full sum
\* of its group, in descending order, no unlisted group above a listed one
IsTopList(list, T, key, val, keys) ==
    /\ Len(list) = Min2(10, Cardinality(keys))
    /\ \A i \in 1..Len(list) :
          /\ list[i][key] \in keys
          /\ list[i][val] = SumCol({r \in T : r[key] = list[i][key]}, val)
    /\ \A i \in 1..Len(list) : \A j \in 1..Len(list) :
          i # j => list[i][key] # list[j][key]
    /\ \A i \in 1..(Len(list) - 1) : list[i][val] >= list[i + 1][val]
    /\ \A k \in keys \ {list[i][key] : i \in 1..Len(list)} :
          \A i \in 1..Len(list) : SumCol({r \in T : r[key] = k}, val) <= list[i][val]

\* C6: the top-customers and the top-products lists have length
\* min(10, number of distinct group keys), hold the full group sums, leave out
\* no group with a greater sum and are in descending order.
C6_TopLists ==
    /\ IsTopList(top_customers, df, "CustomerID", "InvoiceTotal",
                 {r.CustomerID : r \in WithCustomer(df)})
    /\ "top_products" \in rendered =>
          IsTopList(top_products, {l \in raw_full : CountryOK(l)}, "Description",
                    "LineTotal", {l.Description : l \in {x \in raw_full : CountryOK(x)}})

C6_Witness ==
    /\ Completed
    /\ Cardinality({r.CustomerID : r \in WithCustomer(df)}) > 10
    /\ Len(top_customers) = 10
    /\ Cardinality({l.Description : l \in raw_full}) > 10
    /\ Len(top_products) = 10

C7_WitnessRowsNotInvoices ==
    /\ "kpi" \in rendered
    /\ kpi[2] > Cardinality({r.InvoiceNo : r \in df})

\* C8: rows without CustomerID form no group of the top customers, add
\* nothing to the retention matrix, are not counted as customers, are not
\* offered in the customer selector and are in no customer trend; they count
\* in the revenue and in the number of invoices.
C8_NullCustomersExcluded ==
    /\ \A i \in 1..Len(top_customers) : top_customers[i].CustomerID # NaN
    /\ \A i \in 1..Len(customer_ids) :
          \E r \in WithCustomer(df) : IntToStr(r.CustomerID) = customer_ids[i]
    /\ Completed =>
          /\ \A k \in DOMAIN retention : k[1] # NaN
          /\ SumCol({[n |-> retention[k], k |-> k] : k \in DOMAIN retention}, "n")
               = Cardinality(WithCustomer(df))
          /\ kpi[3] = Cardinality({r.CustomerID : r \in WithCustomer(df)})
          /\ SumCol(customer_trend, "InvoiceTotal")
               = SumCol({r \in WithCustomer(df) :
                           IntToStr(r.CustomerID) = selected_customer}, "InvoiceTotal")
          /\ kpi[1] = SumCol(WithCustomer(df), "InvoiceTotal")
                      + SumCol(df \ WithCustomer(df), "InvoiceTotal")
          /\ kpi[2] = Cardinality(WithCustomer(df)) + Cardinality(df \ WithCustomer(df))

C8_Witness ==
    /\ Completed
    /\ \E r \in df : r.CustomerID = NaN
    /\ kpi[1] > SumCol(WithCustomer(df), "InvoiceTotal")
    /\ Len(top_customers) = 1

C10_RetentionCells ==
    "retention" \in rendered =>
        /\ DOMAIN retention = {r.CustomerID : r \in WithCustomer(df)}
                              \X {ToMonth(r.InvoiceDate) : r \in WithCustomer(df)}
        /\ DOMAIN heatmap = DOMAIN retention
        /\ \A k \in DOMAIN retention :
              /\ retention[k] = Cardinality({r \in df : /\ r.CustomerID = k[1]
                                                       /\ InMonth(r.InvoiceDate, k[2])})
              /\ (retention[k] = 0) <=> (heatmap[k] = 0)
              /\ ({r \in df : r.CustomerID = k[1] /\ InMonth(r.InvoiceDate, k[2])} = {})
                    => (retention[k] = 0 /\ heatmap[k] = 0)

C10_Witness ==
    /\ "retention" \in rendered
    /\ \E k \in DOMAIN retention : retention[k] = 0 /\ heatmap[k] = 0
    /\ \E k \in DOMAIN retention : retention[k] >= 1 /\ heatmap[k] > 0

====
